---- MODULE Spec2Model ----
(***************************************************************************)
(* The xfactor site_factor plugin (site_factor_xfactor.c): the three       *)
(* module-level parameters, their parser, the factor calculator and the    *)
(* single-job and bulk updates of job_ptr->site_factor.                    *)
(*                                                                         *)
(* Machine integers are modelled with a reduced word: uint32_t is          *)
(* WordBits bits wide, int is the two's complement of the same width,      *)
(* long and uint64_t are twice as wide.  Every constant of the host that   *)
(* is defined relative to the word (NICE_OFFSET = 0x80000000 = half the    *)
(* word, NO_VAL = 0xfffffffe, INFINITE = 0xffffffff) keeps that relation.  *)
(***************************************************************************)
EXTENDS Integers, Sequences, FiniteSets, TLC

\* Width of uint32_t / int in the model (32 in the build).
WordBits == 4
\* Upper limit of xfactor_min_time (129600 in the build), scaled so that, as
\* in the build, it lies below INT_MAX and below NICE_OFFSET.
MaxMinTime == 5
\* Largest value time(NULL) takes.
MaxNow == 5

Word == 2 ^ WordBits
LongWord == 2 ^ (2 * WordBits)
INT_MAX == 2 ^ (WordBits - 1) - 1
INT_MIN == -(2 ^ (WordBits - 1))
LONG_MAX == 2 ^ (2 * WordBits - 1) - 1
LONG_MIN == -(2 ^ (2 * WordBits - 1))

\* Host constants (slurm/slurm.h).
NICE_OFFSET == 2 ^ (WordBits - 1)
NO_VAL == Word - 2
INFINITE == Word - 1

\* Pointers: NULL or the address of one object.
NULL == << >>
Ptr(x) == << x >>
Deref(p) == p[1]

MAX(a, b) == IF a > b THEN a ELSE b
MIN(a, b) == IF a < b THEN a ELSE b

\* Conversions between the integer types.
ToU32(i) == i % Word
ToInt(i) == LET u == i % Word IN IF u > INT_MAX THEN u - Word ELSE u

VARIABLES xfactor_min_time, xfactor_max, xfactor_weight,
          slurm_conf, job_list, now, last_call

vars == << xfactor_min_time, xfactor_max, xfactor_weight,
           slurm_conf, job_list, now, last_call >>

params_vars == << xfactor_min_time, xfactor_max, xfactor_weight >>

(***************************************************************************)
(* Text of configuration values: sequences of one-character strings.       *)
(***************************************************************************)
DigitChars == << "0", "1", "2", "3", "4", "5", "6", "7", "8", "9" >>
IsDigit(c) == \E d \in 1..10 : DigitChars[d] = c
DigitVal(c) == (CHOOSE d \in 1..10 : DigitChars[d] = c) - 1
IsSpace(c) == c = " "

\* The decimal numeral of a natural number, as the administrator writes it.
RECURSIVE Format(_)
Format(n) ==
    IF n < 10 THEN << DigitChars[n + 1] >>
    ELSE Append(Format(n \div 10), DigitChars[(n % 10) + 1])

RECURSIVE SkipSpace(_)
SkipSpace(s) ==
    IF s # << >> /\ IsSpace(Head(s)) THEN SkipSpace(Tail(s)) ELSE s

\* The value of the leading digits of s, accumulated from acc; it stops at
\* the first character that is no digit.
RECURSIVE LeadingDigits(_, _)
LeadingDigits(s, acc) ==
    IF s # << >> /\ IsDigit(Head(s))
    THEN LeadingDigits(Tail(s), 10 * acc + DigitVal(Head(s)))
    ELSE acc

\* strtol(s, NULL, 10) with a long of 2*WordBits bits: saturates.
strtol(s) ==
    LET t == SkipSpace(s)
        neg == t # << >> /\ Head(t) = "-"
        u == IF t # << >> /\ Head(t) \in {"-", "+"} THEN Tail(t) ELSE t
        m == LeadingDigits(u, 0)
        v == IF neg THEN -m ELSE m
    IN  v

\* atoi(s): the set of values a build can return.  A value that int holds is
\* returned as it is.  For any other value the behaviour is undefined: a
\* build whose long is wider than int returns the low bits of strtol's
\* (saturated) long, a build whose long is int returns the saturated int.
atoi(s) ==
    LET v == strtol(s)
        l == IF v > LONG_MAX THEN LONG_MAX ELSE IF v < LONG_MIN THEN LONG_MIN ELSE v
    IN  IF INT_MIN <= v /\ v <= INT_MAX THEN {v}
        ELSE {ToInt(l), IF v > 0 THEN INT_MAX ELSE INT_MIN}

(***************************************************************************)
(* The configuration string PrioritySiteFactorParameters, held by the      *)
(* host: NULL, or a string of key=value tokens, modelled as the sequence   *)
(* of its tokens, each the key as spelled and the text after its "=".      *)
(***************************************************************************)
Token(k, v) == [key |-> k, val |-> v]

\* Case folding of the key spellings the model uses.
ToLower(k) ==
    CASE k = "XFACTOR_MIN_TIME" -> "xfactor_min_time"
      [] k = "XFactor_Max" -> "xfactor_max"
      [] k = "Xfactor_Weight" -> "xfactor_weight"
      [] OTHER -> k

\* xstrcasestr(params, key "="): the text after the first match without
\* regard to case, or NULL.
RECURSIVE xstrcasestr(_, _)
xstrcasestr(params, key) ==
    IF params = << >> THEN NULL
    ELSE IF ToLower(Head(params).key) = key THEN Ptr(Head(params).val)
    ELSE xstrcasestr(Tail(params), key)

\* The range test of a parsed value (value < 1 || value > limit).
OutOfRange_NoUpper(value, limit) == value < 1

OutOfRange(value, limit) == value < 1 \/ value > limit

Params(a, b, c) == [min_time |-> a, max |-> b, weight |-> c]

\* _parse_parameters from its third key on: the parameter triples it can
\* leave, given the triple cur committed so far.
ParseWeight(cur, params) ==
    LET tmp_ptr == xstrcasestr(params, "xfactor_weight")
    IN  IF tmp_ptr = NULL THEN {cur}
        ELSE { LET weight == ToU32(i)
               IN  IF OutOfRange(weight, NICE_OFFSET) THEN cur
                   ELSE [cur EXCEPT !.weight = weight]
               : i \in atoi(Deref(tmp_ptr)) }

\* _parse_parameters from its second key on.
ParseMax(cur, params) ==
    LET tmp_ptr == xstrcasestr(params, "xfactor_max")
    IN  IF tmp_ptr = NULL THEN {cur}
        ELSE UNION { LET max == ToU32(i)
                     IN  IF OutOfRange(max, NICE_OFFSET) THEN {cur}
                         ELSE ParseWeight([cur EXCEPT !.max = max], params)
                     : i \in atoi(Deref(tmp_ptr)) }

\* A parser that goes on to the next key after a key that fails.
ParseSkipping(cur, conf) ==
    IF conf = NULL THEN {cur}
    ELSE LET params == Deref(conf)
             p1 == xstrcasestr(params, "xfactor_min_time")
             s1 == IF p1 = NULL THEN {cur}
                   ELSE { IF OutOfRange(ToU32(i), MaxMinTime) THEN cur
                          ELSE [cur EXCEPT !.min_time = ToU32(i)]
                          : i \in atoi(Deref(p1)) }
         IN  UNION { ParseMax(c, params) : c \in s1 }

\* _parse_parameters(): the parameter triples one call can leave, from the
\* triple cur and the configuration string conf the host returns.
_parse_parameters(cur, conf) ==
    IF conf = NULL THEN {cur}
    ELSE LET params == Deref(conf)
             tmp_ptr == xstrcasestr(params, "xfactor_min_time")
         IN  IF tmp_ptr = NULL THEN {cur}
             ELSE UNION { LET min_time == ToU32(i)
                          IN  IF OutOfRange(min_time, MaxMinTime) THEN {cur}
                              ELSE ParseMax([cur EXCEPT !.min_time = min_time],
                                            params)
                          : i \in atoi(Deref(tmp_ptr)) }

Cur == Params(xfactor_min_time, xfactor_max, xfactor_weight)

\* The call of _parse_parameters that init and reconfig make.
CallParse ==
    \E post \in _parse_parameters(Cur, slurm_conf) :
        /\ xfactor_min_time' = post.min_time
        /\ xfactor_max' = post.max
        /\ xfactor_weight' = post.weight

(***************************************************************************)
(* Job records of the host, as far as the plugin reads or writes them.     *)
(***************************************************************************)
JOB_PENDING == "PENDING"
JOB_RUNNING == "RUNNING"

\* details: NULL or the job's details, part_ptr: NULL or its partition.
Job(state, details, time_limit, part_ptr, site_factor) ==
    [job_state |-> state, details |-> details, time_limit |-> time_limit,
     part_ptr |-> part_ptr, site_factor |-> site_factor]
Details(accrue_time) == Ptr([accrue_time |-> accrue_time])
Part(max_time) == Ptr([max_time |-> max_time])

IS_JOB_PENDING(job_ptr) == job_ptr.job_state = JOB_PENDING

\* delta: the seconds since accrue_time as a uint32_t, 0 unless t is later.
delta_Unchecked(job_ptr, t) ==
    ToU32(t - Deref(job_ptr.details).accrue_time)

delta_of(job_ptr, t) ==
    IF t > Deref(job_ptr.details).accrue_time
    THEN ToU32(t - Deref(job_ptr.details).accrue_time)
    ELSE 0

\* tmp_time: the divisor, the job's or its partition's limit or 1, raised to
\* xfactor_min_time.
tmp_time_Unraised(job_ptr, min_time) ==
    IF job_ptr.time_limit # NO_VAL THEN job_ptr.time_limit
    ELSE IF job_ptr.part_ptr # NULL /\ Deref(job_ptr.part_ptr).max_time # INFINITE
         THEN Deref(job_ptr.part_ptr).max_time
         ELSE 1

tmp_time_of(job_ptr, min_time) ==
    LET tmp_time == IF job_ptr.time_limit # NO_VAL THEN job_ptr.time_limit
                    ELSE IF /\ job_ptr.part_ptr # NULL
                            /\ Deref(job_ptr.part_ptr).max_time # INFINITE
                         THEN Deref(job_ptr.part_ptr).max_time
                         ELSE 1
    IN  MAX(tmp_time, min_time)

\* lround((double)delta / (double)tmp_time): the quotient rounded half away
\* from zero.  Both operands are below the word, so the double quotient is
\* never rounded onto a half it did not have, and the result is exact.
lround_quotient(delta, tmp_time) == (2 * delta + tmp_time) \div (2 * tmp_time)

\* weightened_factor = factor * xfactor_weight: the product of two uint32_t,
\* taken in uint32_t and then widened to the uint64_t it is assigned to.
weightened(factor, weight) == ((factor * weight) % Word) % LongWord

\* factor = MIN(weightened_factor, xfactor_max), stored in a uint32_t.
clamp_None(weightened_factor, max) == ToU32(weightened_factor)

clamp(weightened_factor, max) == ToU32(MIN(weightened_factor, max))

\* Whether _calc_factor(job_ptr) at time t goes past its early returns.
ReachesDivision(job_ptr, t, p) ==
    /\ p.weight # 0
    /\ job_ptr.details # NULL
    /\ Deref(job_ptr.details).accrue_time # 0
    /\ delta_of(job_ptr, t) # 0

\* _calc_factor(job_ptr), with t the value of time(NULL) and p the three
\* parameters.
_calc_factor(job_ptr, t, p) ==
    IF p.weight = 0 \/ job_ptr.details = NULL
       \/ Deref(job_ptr.details).accrue_time = 0
    THEN 0
    ELSE LET delta == delta_of(job_ptr, t)
         IN  IF delta = 0 THEN 0
             ELSE LET tmp_time == tmp_time_of(job_ptr, p.min_time)
                      factor == ToU32(lround_quotient(delta, tmp_time))
                      weightened_factor == weightened(factor, p.weight)
                  IN  clamp(weightened_factor, p.max)

\* job_ptr->site_factor = _calc_factor(job_ptr) + NICE_OFFSET, in uint32_t.
site_factor_of(job_ptr, t, p) == ToU32(_calc_factor(job_ptr, t, p) + NICE_OFFSET)

\* _update(x, ignored): the job record list_for_each leaves for one job.
update_AnyState(job_ptr, t, p) ==
    [job_ptr EXCEPT !.site_factor = site_factor_of(job_ptr, t, p)]

_update(job_ptr, t, p) ==
    IF IS_JOB_PENDING(job_ptr)
    THEN [job_ptr EXCEPT !.site_factor = site_factor_of(job_ptr, t, p)]
    ELSE job_ptr

(***************************************************************************)
(* Inputs: the configuration strings the host may hold and the job lists   *)
(* it may have.                                                            *)
(***************************************************************************)
NoKey == << >>
\* The string with the given value texts (NoKey: the key is not in it).
MkConf(min_time, max, weight) ==
    Ptr( (IF min_time = NoKey THEN << >>
          ELSE << Token("xfactor_min_time", Deref(min_time)) >>)
      \o (IF max = NoKey THEN << >>
          ELSE << Token("xfactor_max", Deref(max)) >>)
      \o (IF weight = NoKey THEN << >>
          ELSE << Token("xfactor_weight", Deref(weight)) >>) )

Minus(text) == << "-" >> \o text

MinTimeTexts ==
    { Format(2), Format(MaxMinTime), Format(MaxMinTime + 1), << "x" >>,
      Format(2) \o << "m" >>, Format(Word + 1) }
MaxTexts ==
    { Format(3), Format(NICE_OFFSET), Minus(Format(NICE_OFFSET)),
      Format(NICE_OFFSET + 1) }
WeightTexts ==
    { Format(2), << " " >> \o Format(4), Format(0), Minus(Format(2)) }

Opt(S) == {NoKey} \cup { Ptr(x) : x \in S }

\* Strings with other spellings, another order, a repeated and a foreign key.
OddConfigs ==
    { Ptr(<< >>),
      Ptr(<< Token("Xfactor_Weight", Format(2)), Token("XFactor_Max", Format(3)),
             Token("XFACTOR_MIN_TIME", Format(2)) >>),
      Ptr(<< Token("xfactor_min_time", Format(2)), Token("xfactor_min_time", Format(0)),
             Token("preempt_youngest_first", << >>),
             Token("xfactor_max", Format(3)), Token("xfactor_weight", Format(2)) >>) }

Configs ==
    {NULL} \cup OddConfigs
    \cup { MkConf(a, b, c) : a \in Opt(MinTimeTexts), b \in Opt(MaxTexts),
                             c \in Opt(WeightTexts) }

\* The strings of the full specification: none, a weight that makes the
\* product reach the word, and a low ceiling.
ConfHeavy == MkConf(Ptr(Format(1)), Ptr(Format(NICE_OFFSET)), Ptr(Format(4)))
ConfLow == MkConf(Ptr(Format(2)), Ptr(Format(3)), Ptr(Format(2)))
SpecConfigs == {NULL, ConfHeavy, ConfLow}

JobLists ==
    { << >>,
      << Job(JOB_PENDING, Details(1), 1, Part(2), NICE_OFFSET),
         Job(JOB_RUNNING, Details(1), NO_VAL, Part(INFINITE), NICE_OFFSET) >>,
      << Job(JOB_PENDING, Details(0), 1, NULL, NICE_OFFSET + 1),
         Job(JOB_PENDING, NULL, NO_VAL, NULL, NICE_OFFSET + 1),
         Job(JOB_RUNNING, Details(2), 0, Part(2), NICE_OFFSET) >>,
      << Job(JOB_PENDING, Details(1), NO_VAL, NULL, NICE_OFFSET),
         Job(JOB_RUNNING, Details(1), NO_VAL, Part(2), NICE_OFFSET) >>,
      << Job(JOB_PENDING, Details(1), 3, Part(2), NICE_OFFSET),
         Job(JOB_PENDING, Details(MaxNow), 1, Part(2), NICE_OFFSET + 1) >> }

Call(fn, job) == [fn |-> fn, job |-> job]

(***************************************************************************)
(* The state after the plugin is loaded: the parameters hold their static  *)
(* initialisers, and no entry point has been called.                       *)
(***************************************************************************)
InitPlugin ==
    /\ xfactor_min_time = 1
    /\ xfactor_max = NICE_OFFSET
    /\ xfactor_weight = 1
    /\ last_call = Call("none", 0)

Init ==
    /\ InitPlugin
    /\ slurm_conf \in SpecConfigs
    /\ job_list \in JobLists
    /\ now = 0

InitConf ==
    /\ InitPlugin
    /\ slurm_conf \in Configs
    /\ job_list = << >>
    /\ now = 0

Loaded == last_call.fn \notin {"none", "fini"}

\* init(): parses the parameters.
init ==
    /\ last_call.fn = "none"
    /\ CallParse
    /\ last_call' = Call("init", 0)
    /\ UNCHANGED << slurm_conf, job_list, now >>

\* fini(): nothing but a log line.
fini ==
    /\ Loaded
    /\ last_call' = Call("fini", 0)
    /\ UNCHANGED << params_vars, slurm_conf, job_list, now >>

\* site_factor_p_reconfig(): parses the parameters again.
site_factor_p_reconfig ==
    /\ Loaded
    /\ CallParse
    /\ last_call' = Call("reconfig", 0)
    /\ UNCHANGED << slurm_conf, job_list, now >>

\* site_factor_p_set(job_ptr), job_ptr the i-th job of the list.
site_factor_p_set(i) ==
    /\ Loaded
    /\ job_list' = [job_list EXCEPT
                       ![i].site_factor = site_factor_of(job_list[i], now, Cur)]
    /\ last_call' = Call("set", i)
    /\ UNCHANGED << params_vars, slurm_conf, now >>

\* site_factor_p_update(): list_for_each(job_list, _update, NULL).
site_factor_p_update ==
    /\ Loaded
    /\ job_list' = [i \in 1..Len(job_list) |-> _update(job_list[i], now, Cur)]
    /\ last_call' = Call("update", 0)
    /\ UNCHANGED << params_vars, slurm_conf, now >>

\* The host rereads its configuration file.
HostSetConf(conf) ==
    /\ slurm_conf # conf
    /\ slurm_conf' = conf
    /\ last_call' = IF Loaded THEN Call("host", 0) ELSE last_call
    /\ UNCHANGED << params_vars, job_list, now >>

\* The host starts or requeues a job.
HostSetJobState(i, state) ==
    /\ Loaded
    /\ job_list[i].job_state # state
    /\ job_list' = [job_list EXCEPT ![i].job_state = state]
    /\ last_call' = Call("host", 0)
    /\ UNCHANGED << params_vars, slurm_conf, now >>

\* A second passes.
Tick ==
    /\ Loaded
    /\ now < MaxNow
    /\ now' = now + 1
    /\ last_call' = Call("host", 0)
    /\ UNCHANGED << params_vars, slurm_conf, job_list >>

Next ==
    \/ init
    \/ fini
    \/ site_factor_p_reconfig
    \/ \E i \in 1..Len(job_list) : site_factor_p_set(i)
    \/ site_factor_p_update
    \/ \E conf \in SpecConfigs : HostSetConf(conf)
    \/ \E i \in 1..Len(job_list) :
           \E state \in {JOB_PENDING, JOB_RUNNING} : HostSetJobState(i, state)
    \/ Tick

Spec == Init /\ [][Next]_vars

\* The parser alone, under every configuration string of Configs.
NextConf ==
    \/ init
    \/ fini
    \/ site_factor_p_reconfig
    \/ \E conf \in Configs : HostSetConf(conf)

SpecConf == InitConf /\ [][NextConf]_vars

(***************************************************************************)
(* The parser's claims.                                                    *)
(***************************************************************************)
Keys == << "xfactor_min_time", "xfactor_max", "xfactor_weight" >>
Limits == << MaxMinTime, NICE_OFFSET, NICE_OFFSET >>
\* No value of a uint32_t.
Missing == INT_MIN - 1

\* The values key k of string conf can parse to; Missing without the key.
ParsedValues(conf, k) ==
    IF conf = NULL \/ xstrcasestr(Deref(conf), Keys[k]) = NULL THEN {Missing}
    ELSE { ToU32(i) : i \in atoi(Deref(xstrcasestr(Deref(conf), Keys[k]))) }

InRange(k, v) == 1 <= v /\ v <= Limits[k]

\* The first key, in the order of Keys, that is missing or out of range; 4
\* when there is none.
FirstFailing(g) ==
    IF \A k \in 1..3 : InRange(k, g[k]) THEN 4
    ELSE CHOOSE k \in 1..3 : ~InRange(k, g[k]) /\ \A j \in 1..(k - 1) : InRange(j, g[j])

CurSeq == << xfactor_min_time, xfactor_max, xfactor_weight >>
PostSeq == << xfactor_min_time', xfactor_max', xfactor_weight' >>
ParseStep == last_call'.fn \in {"init", "reconfig"}
Parsed == last_call.fn \in {"init", "reconfig"}

\* C1: one call of the parser overwrites the three parameters if and only if
\* all three keys are present and in range: then the parameters are the
\* configured triple, and otherwise all three keep their values.
C1_AllOrNothing ==
    [][ParseStep =>
         \E a \in ParsedValues(slurm_conf, 1), b \in ParsedValues(slurm_conf, 2),
            c \in ParsedValues(slurm_conf, 3) :
             IF InRange(1, a) /\ InRange(2, b) /\ InRange(3, c)
             THEN PostSeq = << a, b, c >>
             ELSE PostSeq = CurSeq]_vars

\* C2: the parser takes the keys in the order min_time, max, weight and stops
\* at the first that is missing or out of range: the keys before it hold their
\* new values, it and the keys after it hold their old ones; so a string with
\* a valid min_time and max and no weight updates the first two only.
C2_StopsAtFirstFailure ==
    [][ParseStep =>
         /\ \E a \in ParsedValues(slurm_conf, 1), b \in ParsedValues(slurm_conf, 2),
               c \in ParsedValues(slurm_conf, 3) :
                LET g == << a, b, c >>
                    f == FirstFailing(g)
                IN  \A k \in 1..3 :
                        PostSeq[k] = IF k < f THEN g[k] ELSE CurSeq[k]
         /\ \A a \in 1..MaxMinTime, b \in 1..INT_MAX :
                slurm_conf = MkConf(Ptr(Format(a)), Ptr(Format(b)), NoKey)
                => PostSeq = << a, b, xfactor_weight >>]_vars

\* A call that stopped at max, which is out of range, after committing
\* min_time: weight is in the string and valid, and keeps its old value.
C2_Witness ==
    /\ Parsed
    /\ slurm_conf = MkConf(Ptr(Format(2)), Ptr(Format(NICE_OFFSET + 1)),
                           Ptr(Format(2)))
    /\ CurSeq = << 2, NICE_OFFSET, 1 >>

\* C3: whatever strings init and reconfig parse, the parameters stay in their
\* ranges: min_time in 1..MaxMinTime, max and weight in 1..NICE_OFFSET.
C3_ParametersInRange ==
    /\ 1 <= xfactor_min_time /\ xfactor_min_time <= MaxMinTime
    /\ 1 <= xfactor_max /\ xfactor_max <= NICE_OFFSET
    /\ 1 <= xfactor_weight /\ xfactor_weight <= NICE_OFFSET

\* A reconfiguration over a string with an oversized min_time, after an
\* earlier string had set all three parameters.
C3_Witness ==
    /\ last_call.fn = "reconfig"
    /\ slurm_conf = MkConf(Ptr(Format(MaxMinTime + 1)),
                           Ptr(Minus(Format(NICE_OFFSET))), Ptr(Minus(Format(2))))
    /\ CurSeq = << MaxMinTime, 3, 4 >>

(***************************************************************************)
(* The calculator's claims.                                                *)
(***************************************************************************)
Jobs == 1..Len(job_list)
HasAccrued(job_ptr) ==
    job_ptr.details # NULL /\ Deref(job_ptr.details).accrue_time # 0
Accrue(job_ptr) == Deref(job_ptr.details).accrue_time

\* n / d rounded to the nearest integer, halves away from zero (n, d > 0).
RoundHalfAway(n, d) ==
    LET q == n \div d
        r == n % d
    IN  IF 2 * r >= d THEN q + 1 ELSE q

\* The limit the specification gives: time_limit if set, else the partition's
\* max_time if bounded, else 1.
SpecLimit(job_ptr) ==
    IF job_ptr.time_limit # NO_VAL THEN job_ptr.time_limit
    ELSE IF job_ptr.part_ptr # NULL /\ Deref(job_ptr.part_ptr).max_time # INFINITE
         THEN Deref(job_ptr.part_ptr).max_time
         ELSE 1

\* The factor with the product taken exactly.
ExactFactor(job_ptr, t) ==
    MIN(RoundHalfAway(t - Accrue(job_ptr),
                      MAX(SpecLimit(job_ptr), xfactor_min_time)) * xfactor_weight,
        xfactor_max)

\* C4: for an eligible job (accrue_time set, now later) the factor is
\* min(raw_factor * weight, max_factor) with the exact product, raw_factor
\* the rounded quotient of the elapsed time and the effective limit.
C4_ExactProduct ==
    \A i \in Jobs :
        (HasAccrued(job_list[i]) /\ now > Accrue(job_list[i]))
        => _calc_factor(job_list[i], now, Cur) = ExactFactor(job_list[i], now)

\* C5: with the job and the parameters fixed, the factor does not decrease as
\* the elapsed time grows.
C5_Monotonic ==
    \A i \in Jobs : \A t1 \in 0..MaxNow, t2 \in 0..MaxNow :
        t1 <= t2 => _calc_factor(job_list[i], t1, Cur)
                       <= _calc_factor(job_list[i], t2, Cur)

\* C6: the factor never exceeds xfactor_max, and the site_factor that set and
\* the bulk update write never exceeds xfactor_max + NICE_OFFSET.
C6_Bounded ==
    /\ \A i \in Jobs : _calc_factor(job_list[i], now, Cur) <= xfactor_max
    /\ last_call.fn = "set"
       => job_list[last_call.job].site_factor <= xfactor_max + NICE_OFFSET
    /\ last_call.fn = "update"
       => \A i \in Jobs : IS_JOB_PENDING(job_list[i])
              => job_list[i].site_factor <= xfactor_max + NICE_OFFSET

\* set has written the ceiling: the weighted factor was above xfactor_max,
\* which is below NICE_OFFSET.
C6_Witness ==
    /\ last_call.fn = "set"
    /\ xfactor_max < NICE_OFFSET
    /\ ReachesDivision(job_list[last_call.job], now, Cur)
    /\ lround_quotient(delta_of(job_list[last_call.job], now),
                       tmp_time_of(job_list[last_call.job], xfactor_min_time))
           * xfactor_weight > xfactor_max
    /\ job_list[last_call.job].site_factor = xfactor_max + NICE_OFFSET

SameButSiteFactor(a, b) == [a EXCEPT !.site_factor = 0] = [b EXCEPT !.site_factor = 0]

\* C7: the bulk update writes the factor plus NICE_OFFSET (as the uint32_t
\* field holds it) into the site_factor of every pending job of the list; it
\* leaves the site_factor of every other job, every other field of every job
\* and the three parameters as they were.
C7_UpdateFrame ==
    [][last_call'.fn = "update" =>
         /\ Len(job_list') = Len(job_list)
         /\ \A i \in Jobs :
                /\ SameButSiteFactor(job_list'[i], job_list[i])
                /\ job_list'[i].site_factor =
                       IF job_list[i].job_state = JOB_PENDING
                       THEN ToU32(_calc_factor(job_list[i], now, Cur) + NICE_OFFSET)
                       ELSE job_list[i].site_factor
         /\ UNCHANGED << params_vars, slurm_conf, now >>]_vars

\* After a bulk update: a pending job with a raised site_factor beside a
\* running job whose factor is positive and whose site_factor is untouched.
C7_Witness ==
    /\ last_call.fn = "update"
    /\ \E i \in Jobs : /\ IS_JOB_PENDING(job_list[i])
                       /\ job_list[i].site_factor > NICE_OFFSET
    /\ \E k \in Jobs : /\ ~IS_JOB_PENDING(job_list[k])
                       /\ _calc_factor(job_list[k], now, Cur) > 0
                       /\ job_list[k].site_factor = NICE_OFFSET

Ineligible(job_ptr, t, weight) ==
    \/ weight = 0
    \/ job_ptr.details = NULL
    \/ Accrue(job_ptr) = 0
    \/ t <= Accrue(job_ptr)

\* C8: the factor is 0 whenever the weight is 0, the job has no details, its
\* accrue_time is 0 or now is not later than it, whatever the other fields
\* and parameters; set then writes NICE_OFFSET.  No call of the parser leaves
\* a weight of 0, so that case is put to the calculator directly.
C8_ZeroWhenIneligible ==
    /\ \A i \in Jobs : \A weight \in {0, xfactor_weight} :
           Ineligible(job_list[i], now, weight)
           => _calc_factor(job_list[i], now, [Cur EXCEPT !.weight = weight]) = 0
    /\ (last_call.fn = "set"
        /\ Ineligible(job_list[last_call.job], now, xfactor_weight))
       => job_list[last_call.job].site_factor = NICE_OFFSET

\* set has replaced the site_factor of a job whose accrue_time is still
\* ahead, which the host had left above NICE_OFFSET.
C8_Witness ==
    /\ last_call.fn = "set"
    /\ job_list[last_call.job].details # NULL
    /\ Accrue(job_list[last_call.job]) = MaxNow
    /\ now < MaxNow
    /\ job_list[last_call.job].time_limit = 1
    /\ job_list[last_call.job].site_factor = NICE_OFFSET

\* C9: in every call that reaches the division the divisor is at least
\* xfactor_min_time, and so at least 1.
C9_DivisorAtLeastMinTime ==
    \A i \in Jobs :
        ReachesDivision(job_list[i], now, Cur)
        => /\ tmp_time_of(job_list[i], xfactor_min_time) >= xfactor_min_time
           /\ tmp_time_of(job_list[i], xfactor_min_time) >= 1

\* set has divided for a job without a time limit in an unbounded partition,
\* under a min_time above the fallback of 1.
C9_Witness ==
    /\ last_call.fn = "set"
    /\ xfactor_min_time = 2
    /\ job_list[last_call.job].time_limit = NO_VAL
    /\ job_list[last_call.job].part_ptr = Part(INFINITE)
    /\ ReachesDivision(job_list[last_call.job], now, Cur)
    /\ job_list[last_call.job].site_factor =
           NICE_OFFSET + MIN(RoundHalfAway(now - Accrue(job_list[last_call.job]), 2)
                                 * xfactor_weight, xfactor_max)

\* C10: the site_factor that set and the bulk update write is never below
\* NICE_OFFSET.
C10_NeverBelowNeutral ==
    /\ last_call.fn = "set"
       => job_list[last_call.job].site_factor >= NICE_OFFSET
    /\ last_call.fn = "update"
       => \A i \in Jobs : IS_JOB_PENDING(job_list[i])
              => job_list[i].site_factor >= NICE_OFFSET

====
